---- MODULE Spec2Model ----
(***************************************************************************)
(* Model of src/main.rs: a Bevy 0.10 application with two startup systems  *)
(* (setup, tank_spawn) and five per-frame systems (tank_move,              *)
(* cannon_ball_velocity, check_safe_zone, turret_rotate, turret_shoot).    *)
(*                                                                         *)
(* Fixed-point units (f32 in the source):                                  *)
(*   time                     1e-4 s                                       *)
(*   angles                   1e-4 * pi rad  (a full turn is 20000)        *)
(*   tank / turret positions  1e-4 m                                       *)
(*   projectile positions     1e-7 m                                       *)
(*   projectile velocities    1e-3 m/s                                     *)
(* so that velocity * dt is an exact projectile displacement and           *)
(* 5 m/s * dt is an exact tank displacement.  Sines are 1/1000.            *)
(***************************************************************************)
EXTENDS Integers, Sequences, FiniteSets, TLC

\* ---------------------------------------------------------------- bounds
MaxFrames == 4
NumTanks == 2

\* ------------------------------------------------------ program constants
TANK_SPEED == 5
LAUNCH_SPEED == 20
GRAVITY_CM == 982
DESTROY_SPEED2 == 100000
TILT_SIN == 851
TILT_COS == 525
FULL_TURN == 20000

\* frame times the Time resource may report, in 1e-4 s
DtSet == {500}
\* headings the noise generator may yield, in 1e-4 pi rad
HeadingSet == {5000, 15000}
\* safe_zone_radius values, in 1e-4 m
RadiusSet == {0, 2500}

Tanks == 1..NumTanks
Systems == {"tank_move", "cannon_ball_velocity", "check_safe_zone",
            "turret_rotate", "turret_shoot"}

VARIABLES frame, stage, dt, st, radius, tankPos, tankYaw, turretYaw,
          turretGlobal, spawnGlobal, shooting, live, balls, nextId, cmds,
          panicked, prevWorld, shots, hist

vars == <<frame, stage, dt, st, radius, tankPos, tankYaw, turretYaw,
          turretGlobal, spawnGlobal, shooting, live, balls, nextId, cmds,
          panicked, prevWorld, shots, hist>>

\* ------------------------------------------------------------ arithmetic
Abs(n) == IF n >= 0 THEN n ELSE -n

\* sin(a) * 1000 for a in 1e-4 pi rad (Bhaskara's rational approximation)
HalfSin(a) == (16 * (a * (10000 - a))) \div ((500000000 - 4 * (a * (10000 - a))) \div 1000)
Sin1000(a) ==
  LET r == a % FULL_TURN
  IN IF r <= 10000 THEN HalfSin(r) ELSE -HalfSin(r - 10000)
Cos1000(a) == Sin1000(a + 5000)

\* x * 0.8, rounded towards zero
Mul08(x) == IF x >= 0 THEN (4 * x) \div 5 ELSE -((4 * (-x)) \div 5)

\* GRAVITY.y * dt, in 1e-3 m/s, rounded to nearest
GravDt(d) == (GRAVITY_CM * d + 500) \div 1000

LengthSquared(v) == v[1] * v[1] + v[2] * v[2] + v[3] * v[3]

\* (a * b) / 1000, rounded towards zero
MulMilli(a, b) == IF a * b >= 0 THEN (a * b) \div 1000 ELSE -((-(a * b)) \div 1000)

\* ---------------------------------------------------------------- entities
\* setup spawns the ground plane, the light, the camera and the zone sphere
SetupEntities == 1..4
\* tank_spawn, iteration t: spawn point, cannon, turret, tank (in this order)
SpawnPointId(t) == 4 + 4 * (t - 1) + 1
CannonId(t) == 4 + 4 * (t - 1) + 2
TurretId(t) == 4 + 4 * (t - 1) + 3
TankId(t) == 4 + 4 * (t - 1) + 4
FirstBallId == 4 + 4 * NumTanks + 1

TurretSpawnPointDangling(t) == 0

\* Turret { spawn_point }: the handle stored in the turret of tank t
TurretSpawnPoint(t) == SpawnPointId(t)

StartupEntities ==
  SetupEntities \cup UNION {{SpawnPointId(t), CannonId(t), TurretId(t), TankId(t)} : t \in Tanks}

\* -------------------------------------------------------------- transforms
\* GlobalTransform::up() of a turret whose world yaw is a: the local Y axis
\* tilted by Quat::from_rotation_x(45.0) and then turned about Y, in 1/1000
Up1000(a) == <<MulMilli(TILT_SIN, Sin1000(a)), TILT_COS, MulMilli(TILT_SIN, Cos1000(a))>>

\* height of the turret origin (tank 0.5 + turret 0.5), in 1e-7 m
TURRET_HEIGHT == 10000000
\* distance turret origin -> spawn point (cannon 0.5 + 0.5 * 1.0), 1e-7 m per 1/1000
BARREL == 10000

\* world translation of the spawn point of a tank at planar position p whose
\* turret has world yaw a, in 1e-7 m
MuzzlePos(p, a) ==
  <<p[1] * 1000 + Up1000(a)[1] * BARREL,
    TURRET_HEIGHT + Up1000(a)[2] * BARREL,
    p[2] * 1000 + Up1000(a)[3] * BARREL>>

\* world transform of the turret of a tank with local position p, heading h,
\* whose turret has local yaw y
TurretWorld(p, h, y) == [pos |-> p, yaw |-> (h + y) % FULL_TURN]

\* ------------------------------------------------------------------- Init
NoBall == [pos |-> <<0, 0, 0>>, vel |-> <<0, 0, 0>>]

InitWorld ==
  /\ frame = 1
  /\ stage = "Update"
  /\ tankPos = [t \in Tanks |-> <<0, 0>>]
  /\ tankYaw = [t \in Tanks |-> 0]
  /\ turretYaw = [t \in Tanks |-> 0]
  /\ turretGlobal = [t \in Tanks |-> TurretWorld(<<0, 0>>, 0, 0)]
  /\ spawnGlobal = [t \in Tanks |-> MuzzlePos(<<0, 0>>, 0)]
  /\ shooting = [t \in Tanks |-> FALSE]
  /\ cmds = [s \in Systems |-> << >>]
  /\ panicked = FALSE
  /\ prevWorld = [t \in Tanks |-> <<0, 0>>]
  /\ shots = [t \in Tanks |-> 0]

\* the world after the startup schedule: setup and tank_spawn have run, their
\* commands are applied and the transforms propagated; no projectile exists
Init ==
  /\ InitWorld
  /\ radius \in RadiusSet
  /\ dt \in DtSet
  /\ st = [s \in Systems |-> "idle"]
  /\ live = StartupEntities
  /\ nextId = FirstBallId
  /\ balls = << >>
  /\ hist = << >>

\* ------------------------------------------------------------- scheduling
AfterNothing(s) == {}

\* turret_shoot.after(turret_rotate): the only ordering edge of the schedule
After(s) == IF s = "turret_shoot" THEN {"turret_rotate"} ELSE {}

\* the systems an ordering edge touches: their start and their completion are
\* separate steps.  The other systems take part in no edge and share no data
\* with a concurrently running system, so each of them runs in one step.
Ordered == {"turret_rotate", "turret_shoot"}

\* the executor starts a system of the update pass once the systems it is
\* ordered after have finished
StartSystem ==
  /\ ~panicked
  /\ stage = "Update"
  /\ \E s \in Ordered :
       /\ st[s] = "idle"
       /\ \A d \in After(s) : st[d] = "done"
       /\ st' = [st EXCEPT ![s] = "running"]
  /\ UNCHANGED <<frame, stage, dt, radius, tankPos, tankYaw, turretYaw,
                 turretGlobal, spawnGlobal, shooting, live, balls, nextId,
                 cmds, panicked, prevWorld, shots, hist>>

Running(s) ==
  /\ ~panicked
  /\ stage = "Update"
  /\ IF s \in Ordered THEN st[s] = "running"
     ELSE st[s] = "idle" /\ \A d \in After(s) : st[d] = "done"
Finish(s) == st' = [st EXCEPT ![s] = "done"]

\* ---------------------------------------------------------------- tank_move
\* translation += Vec3::new(sin, 0, cos) * dt * 5.0 for heading angle h
MoveTank(p, h, d) ==
  <<p[1] + MulMilli(Sin1000(h), TANK_SPEED * d),
    p[2] + MulMilli(Cos1000(h), TANK_SPEED * d)>>

tank_move ==
  /\ Running("tank_move")
  /\ \E angle \in [Tanks -> HeadingSet] :
       /\ tankYaw' = angle
       /\ tankPos' = [t \in Tanks |-> MoveTank(tankPos[t], angle[t], dt)]
  /\ Finish("tank_move")
  /\ UNCHANGED <<frame, stage, dt, radius, turretYaw, turretGlobal,
                 spawnGlobal, shooting, live, balls, nextId, cmds, panicked,
                 prevWorld, shots, hist>>

\* ------------------------------------------------------------ turret_rotate
\* rotation = Quat::from_rotation_y(dt * PI) * rotation
RotateTurret(y, d) == (y + d) % FULL_TURN

turret_rotate ==
  /\ Running("turret_rotate")
  /\ turretYaw' = [t \in Tanks |-> RotateTurret(turretYaw[t], dt)]
  /\ Finish("turret_rotate")
  /\ UNCHANGED <<frame, stage, dt, radius, tankPos, tankYaw, turretGlobal,
                 spawnGlobal, shooting, live, balls, nextId, cmds, panicked,
                 prevWorld, shots, hist>>

\* ---------------------------------------------------------- check_safe_zone
OutsideZoneOrOnEdge(p, r) == p[1] * p[1] + p[2] * p[2] >= r * r

\* global_transform.translation().xz().length() > safe_zone_radius
OutsideZone(p, r) == p[1] * p[1] + p[2] * p[2] > r * r

\* the command check_safe_zone queues for a turret at world position p whose
\* marker is m (<< >> when it queues none)
ZoneCommand(t, p, m, r) ==
  IF OutsideZone(p, r)
  THEN IF ~m THEN <<[op |-> "insert", e |-> TurretId(t), ball |-> NoBall]>> ELSE << >>
  ELSE IF m THEN <<[op |-> "remove", e |-> TurretId(t), ball |-> NoBall]>> ELSE << >>

RECURSIVE ZoneCommandsStale(_)
ZoneCommandsStale(n) ==
  IF n = 0 THEN << >>
  ELSE ZoneCommandsStale(n - 1) \o ZoneCommand(n, prevWorld[n], shooting[n], radius)

RECURSIVE ZoneCommands(_)
ZoneCommands(n) ==
  IF n = 0 THEN << >>
  ELSE ZoneCommands(n - 1) \o ZoneCommand(n, turretGlobal[n].pos, shooting[n], radius)

check_safe_zone ==
  /\ Running("check_safe_zone")
  /\ cmds' = [cmds EXCEPT !["check_safe_zone"] = ZoneCommands(NumTanks)]
  /\ Finish("check_safe_zone")
  /\ UNCHANGED <<frame, stage, dt, radius, tankPos, tankYaw, turretYaw,
                 turretGlobal, spawnGlobal, shooting, live, balls, nextId,
                 panicked, prevWorld, shots, hist>>

\* ------------------------------------------------------------- turret_shoot
\* velocity: global_transform.up() * 20.0, in 1e-3 m/s
LaunchVelocity(a) ==
  <<Up1000(a)[1] * LAUNCH_SPEED, Up1000(a)[2] * LAUNCH_SPEED, Up1000(a)[3] * LAUNCH_SPEED>>

MarkedOrNot == Tanks

\* the turrets the query With<Shooting> yields
Marked == {t \in Tanks : shooting[t]}

\* global_transform_query.get(turret.spawn_point) is Ok
LookupOk(t) == TurretSpawnPoint(t) \in live

\* number of marked turrets below t: its offset in this frame's id allocation
Rank(t) == Cardinality({u \in Marked : u < t})

RECURSIVE SpawnCommands(_)
SpawnCommands(n) ==
  IF n = 0 THEN << >>
  ELSE SpawnCommands(n - 1) \o
       (IF n \in Marked
        THEN <<[op |-> "spawn", e |-> nextId + Rank(n),
                ball |-> [pos |-> spawnGlobal[n],
                          vel |-> LaunchVelocity(turretGlobal[n].yaw)]]>>
        ELSE << >>)

turret_shoot ==
  /\ Running("turret_shoot")
  /\ IF \A t \in Marked : LookupOk(t)
     THEN /\ cmds' = [cmds EXCEPT !["turret_shoot"] = SpawnCommands(NumTanks)]
          /\ nextId' = nextId + Cardinality(Marked)
          /\ shots' = [t \in Tanks |-> IF t \in Marked THEN shots[t] + 1 ELSE shots[t]]
          /\ Finish("turret_shoot")
          /\ UNCHANGED panicked
     ELSE /\ panicked' = TRUE
          /\ UNCHANGED <<cmds, nextId, shots, st>>
  /\ UNCHANGED <<frame, stage, dt, radius, tankPos, tankYaw, turretYaw,
                 turretGlobal, spawnGlobal, shooting, live, balls, prevWorld,
                 hist>>

\* ----------------------------------------------------- cannon_ball_velocity
\* transform.translation += cannon_ball.velocity * dt
Integrate(b, d) ==
  [b EXCEPT !.pos = <<b.pos[1] + b.vel[1] * d,
                      b.pos[2] + b.vel[2] * d,
                      b.pos[3] + b.vel[3] * d>>]

BounceUndamped(b) ==
  IF b.pos[2] < 0
  THEN [pos |-> <<b.pos[1], -b.pos[2], b.pos[3]>>,
        vel |-> <<b.vel[1], -b.vel[2], b.vel[3]>>]
  ELSE b

BounceVerticalOnly(b) ==
  IF b.pos[2] < 0
  THEN [pos |-> <<b.pos[1], -b.pos[2], b.pos[3]>>,
        vel |-> <<b.vel[1], -Mul08(b.vel[2]), b.vel[3]>>]
  ELSE b

\* if translation.y < 0.0 { translation *= INVERT_Y; velocity *= INVERT_Y * 0.8 }
\* with INVERT_Y = (1, -1, 1), so that INVERT_Y * 0.8 = (0.8, -0.8, 0.8)
Bounce(b) ==
  IF b.pos[2] < 0
  THEN [pos |-> <<b.pos[1], -b.pos[2], b.pos[3]>>,
        vel |-> <<Mul08(b.vel[1]), -Mul08(b.vel[2]), Mul08(b.vel[3])>>]
  ELSE b

GravitateWithoutDt(b, d) ==
  [b EXCEPT !.vel = <<b.vel[1], b.vel[2] - GRAVITY_CM * 10, b.vel[3]>>]

\* velocity += GRAVITY * dt with GRAVITY = (0, -9.82, 0)
Gravitate(b, d) ==
  [b EXCEPT !.vel = <<b.vel[1], b.vel[2] - GravDt(d), b.vel[3]>>]

\* one iteration of the loop body, up to the despawn test
StepBall(b, d) == Gravitate(Bounce(Integrate(b, d)), d)

TooSlowVertically(v) == v[2] * v[2] < DESTROY_SPEED2

\* velocity.length_squared() < 0.1
TooSlow(v) == LengthSquared(v) < DESTROY_SPEED2

\* the entities Query<(&mut CannonBall, &mut Transform, Entity)> yields
CannonBalls == DOMAIN balls

DespawnNothing(ids) == << >>

RECURSIVE DespawnCommands(_)
DespawnCommands(ids) ==
  IF ids = {} THEN << >>
  ELSE LET id == CHOOSE i \in ids : \A j \in ids : i <= j
       IN (IF TooSlow(StepBall(balls[id], dt).vel)
           THEN <<[op |-> "despawn", e |-> id, ball |-> NoBall]>>
           ELSE << >>) \o DespawnCommands(ids \ {id})

\* bookkeeping for a projectile: launch velocity, number of steps taken
\* before its first ground contact, and whether it has touched the ground
StepHist(h, b, d) ==
  IF h.touched THEN h
  ELSE IF Integrate(b, d).pos[2] < 0 THEN [h EXCEPT !.touched = TRUE]
  ELSE [h EXCEPT !.n = h.n + 1]

cannon_ball_velocity ==
  /\ Running("cannon_ball_velocity")
  /\ balls' = [id \in CannonBalls |-> StepBall(balls[id], dt)]
  /\ hist' = [id \in CannonBalls |-> StepHist(hist[id], balls[id], dt)]
  /\ cmds' = [cmds EXCEPT !["cannon_ball_velocity"] = DespawnCommands(CannonBalls)]
  /\ Finish("cannon_ball_velocity")
  /\ UNCHANGED <<frame, stage, dt, radius, tankPos, tankYaw, turretYaw,
                 turretGlobal, spawnGlobal, shooting, live, nextId, panicked,
                 prevWorld, shots>>

\* ------------------------------------------------------ apply_system_buffers
\* the world after one queued command
ApplyCommand(w, c) ==
  IF c.op = "insert"
  THEN [w EXCEPT !.shooting = [t \in Tanks |-> IF TurretId(t) = c.e THEN TRUE ELSE w.shooting[t]]]
  ELSE IF c.op = "remove"
  THEN [w EXCEPT !.shooting = [t \in Tanks |-> IF TurretId(t) = c.e THEN FALSE ELSE w.shooting[t]]]
  ELSE IF c.op = "spawn"
  THEN [w EXCEPT !.live = w.live \cup {c.e},
                 !.balls = [id \in DOMAIN w.balls \cup {c.e} |->
                              IF id = c.e THEN c.ball ELSE w.balls[id]],
                 !.hist = [id \in DOMAIN w.hist \cup {c.e} |->
                              IF id = c.e
                              THEN [v0 |-> c.ball.vel, n |-> 0, touched |-> FALSE]
                              ELSE w.hist[id]]]
  ELSE [w EXCEPT !.live = w.live \ {c.e},
                 !.balls = [id \in DOMAIN w.balls \ {c.e} |-> w.balls[id]],
                 !.hist = [id \in DOMAIN w.hist \ {c.e} |-> w.hist[id]]]

RECURSIVE ApplyCommands(_, _)
ApplyCommands(w, q) ==
  IF q = << >> THEN w ELSE ApplyCommands(ApplyCommand(w, Head(q)), Tail(q))

\* the Commands buffers of the systems, in the order the systems were added
AllCommands ==
  cmds["tank_move"] \o cmds["cannon_ball_velocity"] \o cmds["check_safe_zone"]
    \o cmds["turret_rotate"] \o cmds["turret_shoot"]

\* CoreSet::UpdateFlush: runs when every system of the update pass is done
apply_system_buffers ==
  /\ ~panicked
  /\ stage = "Update"
  /\ \A s \in Systems : st[s] = "done"
  /\ LET w == ApplyCommands([shooting |-> shooting, live |-> live,
                             balls |-> balls, hist |-> hist], AllCommands)
     IN /\ shooting' = w.shooting
        /\ live' = w.live
        /\ balls' = w.balls
        /\ hist' = w.hist
  /\ cmds' = [s \in Systems |-> << >>]
  /\ stage' = "PostUpdate"
  /\ UNCHANGED <<frame, dt, st, radius, tankPos, tankYaw, turretYaw,
                 turretGlobal, spawnGlobal, nextId, panicked, prevWorld, shots>>

\* ------------------------------------------------------ propagate_transforms
\* CoreSet::PostUpdate: GlobalTransform of every turret and spawn point is
\* recomputed from the local transforms along tank -> turret -> cannon -> point
propagate_transforms ==
  /\ ~panicked
  /\ stage = "PostUpdate"
  /\ turretGlobal' = [t \in Tanks |-> TurretWorld(tankPos[t], tankYaw[t], turretYaw[t])]
  /\ spawnGlobal' = [t \in Tanks |->
                       MuzzlePos(tankPos[t], (tankYaw[t] + turretYaw[t]) % FULL_TURN)]
  /\ prevWorld' = [t \in Tanks |-> turretGlobal[t].pos]
  /\ stage' = "First"
  /\ UNCHANGED <<frame, dt, st, radius, tankPos, tankYaw, turretYaw, shooting,
                 live, balls, nextId, cmds, panicked, shots, hist>>

\* CoreSet::First of the next frame: Time is updated, the update pass restarts
BeginFrame ==
  /\ ~panicked
  /\ stage = "First"
  /\ frame < MaxFrames
  /\ frame' = frame + 1
  /\ dt' \in DtSet
  /\ st' = [s \in Systems |-> "idle"]
  /\ stage' = "Update"
  /\ UNCHANGED <<radius, tankPos, tankYaw, turretYaw, turretGlobal,
                 spawnGlobal, shooting, live, balls, nextId, cmds, panicked,
                 prevWorld, shots, hist>>

Next ==
  \/ StartSystem
  \/ tank_move
  \/ cannon_ball_velocity
  \/ check_safe_zone
  \/ turret_rotate
  \/ turret_shoot
  \/ apply_system_buffers
  \/ propagate_transforms
  \/ BeginFrame

Spec == Init /\ [][Next]_vars

\* ------------------------------------------------- projectile specifications
\* cannon_ball_velocity applied to projectiles drawn from bounded sets: the
\* world holds one projectile, only the projectile system is scheduled, and
\* the frame time stays the same from frame to frame.
MaxBallFrames == 6
BallDtSet == {167, 500}
BallHeightSet == {0, 30000, 15250000}
BallVxSet == {0, 250, 17020}
BallVySet == {-400, -250, 100, 10500}
BallVzSet == {0, -300}

OnlyBalls == [s \in Systems |-> IF s = "cannon_ball_velocity" THEN "idle" ELSE "done"]

InitOneBall(b) ==
  /\ InitWorld
  /\ radius = 0
  /\ st = OnlyBalls
  /\ live = StartupEntities \cup {FirstBallId}
  /\ nextId = FirstBallId + 1
  /\ balls = [id \in {FirstBallId} |-> b]
  /\ hist = [id \in {FirstBallId} |-> [v0 |-> b.vel, n |-> 0, touched |-> FALSE]]

InitBall ==
  /\ dt \in BallDtSet
  /\ \E y \in BallHeightSet, vx \in BallVxSet, vy \in BallVySet, vz \in BallVzSet :
       InitOneBall([pos |-> <<0, y, 0>>, vel |-> <<vx, vy, vz>>])

\* the next frame of the projectile specification, frames counted
BallFrame ==
  /\ stage = "First"
  /\ frame < MaxBallFrames
  /\ frame' = frame + 1
  /\ st' = OnlyBalls
  /\ stage' = "Update"
  /\ UNCHANGED <<dt, radius, tankPos, tankYaw, turretYaw, turretGlobal,
                 spawnGlobal, shooting, live, balls, nextId, cmds, panicked,
                 prevWorld, shots, hist>>

NextBall ==
  \/ cannon_ball_velocity
  \/ apply_system_buffers
  \/ propagate_transforms
  \/ BallFrame

SpecBall == InitBall /\ [][NextBall]_vars

\* A projectile as turret_shoot launches it from a turret with world yaw a,
\* under a constant frame time; frames are not counted and the main loop
\* never stops.
LiveDtSet == {167, 300, 587}
LiveYawSet == {2500, 5000}
\* planar position of the launching tank, one step outside a zone of radius 0
LaunchPos == <<2500, 0>>

InitLive ==
  /\ dt \in LiveDtSet
  /\ \E a \in LiveYawSet :
       InitOneBall([pos |-> MuzzlePos(LaunchPos, a), vel |-> LaunchVelocity(a)])

LiveFrame ==
  /\ stage = "First"
  /\ st' = OnlyBalls
  /\ stage' = "Update"
  /\ UNCHANGED <<frame, dt, radius, tankPos, tankYaw, turretYaw, turretGlobal,
                 spawnGlobal, shooting, live, balls, nextId, cmds, panicked,
                 prevWorld, shots, hist>>

NextLive ==
  \/ cannon_ball_velocity
  \/ apply_system_buffers
  \/ propagate_transforms
  \/ LiveFrame

SpecLive == InitLive /\ [][NextLive]_vars /\ WF_vars(NextLive)

\* ------------------------------------------------------------------ claims
Sq(n) == n * n
Planar2(p) == Sq(p[1]) + Sq(p[2])
Speed2(v) == Sq(v[1]) + Sq(v[2]) + Sq(v[3])
TurretOf(e) == CHOOSE t \in Tanks : TurretId(t) = e
StepOf(s) == st[s] # "done" /\ st'[s] = "done"
FlushStep == stage = "Update" /\ stage' = "PostUpdate"

\* C1: once the commands of a frame are applied, a turret carries Shooting
\* exactly when the planar distance of the world position check_safe_zone
\* read in that frame exceeds the radius (distance = radius is inside),
\* whatever the marker was; an insert is queued only for an unmarked turret
\* and a remove only for a marked one.
C1_MarkerFollowsDistance ==
  /\ stage = "PostUpdate" =>
       \A t \in Tanks : shooting[t] <=> (Planar2(turretGlobal[t].pos) > Sq(radius))
  /\ stage = "Update" =>
       \A i \in 1..Len(AllCommands) :
         /\ AllCommands[i].op = "insert" => ~shooting[TurretOf(AllCommands[i].e)]
         /\ AllCommands[i].op = "remove" => shooting[TurretOf(AllCommands[i].e)]

\* a frame in which one turret lost the marker it had (it was outside the
\* zone a frame earlier) while another turret carries it
C1_Witness ==
  /\ stage = "PostUpdate"
  /\ \E t, u \in Tanks :
       /\ ~shooting[t] /\ Planar2(prevWorld[t]) > Sq(radius)
       /\ shooting[u]

C6_OneProjectilePerMarkedTurret ==
  [][FlushStep =>
       /\ Cardinality(DOMAIN balls' \ DOMAIN balls)
            = Cardinality({t \in Tanks : shooting[t]})
       /\ \A t \in Tanks : shooting[t] =>
            \E id \in DOMAIN balls' \ DOMAIN balls : balls'[id].pos = spawnGlobal[t]
       /\ \A id \in DOMAIN balls' \ DOMAIN balls :
            \E t \in Tanks : shooting[t] /\ balls'[id].pos = spawnGlobal[t]]_vars

\* a frame in which one turret fired and the other, unmarked, did not
C6_Witness ==
  /\ stage = "PostUpdate"
  /\ \E t, u \in Tanks : shots[t] = 1 /\ shots[u] = 0
  /\ Cardinality(DOMAIN balls) = 1

\* C7: turret_shoot neither runs nor has run in a frame unless turret_rotate
\* has finished in that frame.
C7_ShootAfterRotate ==
  st["turret_shoot"] # "idle" => st["turret_rotate"] = "done"

\* turret_shoot runs after turret_rotate while tank_move has not run yet and
\* check_safe_zone has
C7_Witness ==
  /\ st["turret_shoot"] = "running" /\ st["turret_rotate"] = "done"
  /\ st["tank_move"] = "idle"
  /\ st["check_safe_zone"] = "done"

\* C8: the spawn point every turret refers to is alive in every reachable
\* state, as is every entity of the startup schedule, and turret_shoot never
\* panics.
C8_MuzzleLookupNeverFails ==
  /\ ~panicked
  /\ StartupEntities \subseteq live
  /\ \A t \in Tanks : SpawnPointId(t) \in live /\ TurretSpawnPoint(t) \in live

\* turret_shoot has looked up the muzzle of a marked turret and finished
C8_Witness ==
  /\ st["turret_shoot"] = "done"
  /\ \E t \in Tanks : shooting[t]
  /\ ~panicked

\* the height of projectile id after this frame's move, before any bounce
MovedY(id) == balls[id].pos[2] + balls[id].vel[2] * dt

C4_BounceReflectsAndDamps ==
  [][StepOf("cannon_ball_velocity") =>
       \A id \in DOMAIN balls :
         IF MovedY(id) < 0
         THEN /\ balls'[id].pos[2] = -MovedY(id)
              /\ balls'[id].pos[2] >= 0
              /\ balls'[id].vel[2] = -Mul08(balls[id].vel[2]) - GravDt(dt)
         ELSE /\ balls'[id].pos[2] = MovedY(id)
              /\ balls'[id].vel[2] = balls[id].vel[2] - GravDt(dt)]_vars

\* a projectile that flew, touched the ground and now rises again
C4_Witness ==
  \E id \in DOMAIN balls :
    /\ hist[id].touched /\ hist[id].n >= 1
    /\ balls[id].vel[2] > 0 /\ balls[id].pos[2] > 0

\* C5: as long as a projectile has had no ground contact, after its N steps
\* of frame time dt its velocity is the launch velocity with N * 9.82 * dt
\* subtracted from the vertical component.
C5_GravityAccumulatesLinearly ==
  \A id \in DOMAIN balls :
    ~hist[id].touched =>
      balls[id].vel = <<hist[id].v0[1],
                        hist[id].v0[2] - hist[id].n * GravDt(dt),
                        hist[id].v0[3]>>

\* a projectile with horizontal velocity after four steps in the air
C5_Witness ==
  \E id \in DOMAIN balls :
    /\ ~hist[id].touched /\ hist[id].n >= 4
    /\ hist[id].v0[1] # 0
    /\ stage = "PostUpdate"

\* C9 as claimed: a step that bounces leaves the horizontal position and the
\* horizontal velocity as the same step without the bounce would.
C9_BounceLeavesHorizontalAlone ==
  [][StepOf("cannon_ball_velocity") =>
       \A id \in DOMAIN balls :
         MovedY(id) < 0 =>
           /\ balls'[id].pos[1] = balls[id].pos[1] + balls[id].vel[1] * dt
           /\ balls'[id].pos[3] = balls[id].pos[3] + balls[id].vel[3] * dt
           /\ balls'[id].vel[1] = balls[id].vel[1]
           /\ balls'[id].vel[3] = balls[id].vel[3]]_vars

\* C9 amended: a step that bounces leaves the horizontal position as the same
\* step without the bounce would, and multiplies both horizontal velocity
\* components by 0.8, like the vertical one.
C9_BounceDampsHorizontalVelocity ==
  [][StepOf("cannon_ball_velocity") =>
       \A id \in DOMAIN balls :
         MovedY(id) < 0 =>
           /\ balls'[id].pos[1] = balls[id].pos[1] + balls[id].vel[1] * dt
           /\ balls'[id].pos[3] = balls[id].pos[3] + balls[id].vel[3] * dt
           /\ 5 * Abs(balls'[id].vel[1]) <= 4 * Abs(balls[id].vel[1])
           /\ 5 * Abs(balls'[id].vel[1]) > 4 * Abs(balls[id].vel[1]) - 5
           /\ 5 * Abs(balls'[id].vel[3]) <= 4 * Abs(balls[id].vel[3])
           /\ 5 * Abs(balls'[id].vel[3]) > 4 * Abs(balls[id].vel[3]) - 5
           /\ balls'[id].vel[1] * balls[id].vel[1] >= 0
           /\ balls'[id].vel[3] * balls[id].vel[3] >= 0]_vars

\* a projectile that has bounced once and whose horizontal velocity is now
\* four fifths of the one it started with
C9_Witness ==
  \E id \in DOMAIN balls :
    /\ hist[id].touched
    /\ hist[id].v0[1] > 0
    /\ 5 * balls[id].vel[1] = 4 * hist[id].v0[1]

GravityStepBelowBandWidth == dt \in {d \in LiveDtSet : GravDt(d) * GravDt(d) < 4 * 100000}
GravityStepBelowHalfBandWidth == dt \in {d \in LiveDtSet : GravDt(d) * GravDt(d) < 100000}
NoProjectileLeft == DOMAIN balls = {}

====
